---- MODULE Spec2Model ----
(***************************************************************************)
(* A model of github.com/alecthomas/concurrency: a tree of goroutine       *)
(* groups (Tree) built on context.WithCancelCause, sync.WaitGroup and      *)
(* x/sync/semaphore.  The client is nondeterministic: a main goroutine     *)
(* calls Go/Sub/Link on the root and then Wait; setup functions call       *)
(* Go/Sub/Link on the scope they are given; every user function may return *)
(* nil, return an error, panic, or never return.  The helpers (Map,        *)
(* Channel, Schedule), a second Wait and the option slices of Sub have     *)
(* specifications of their own, over the same goroutine steps.             *)
(***************************************************************************)
EXTENDS Integers, Sequences, FiniteSets, TLC

\* Bounds of the model.
MaxUnits == 2       \* goroutines started by Go, Sub and Link, over the whole tree
MaxScopes == 3      \* Trees, the root included
MaxLimit == 1       \* largest n given to WithConcurrencyLimit

Units == 1..MaxUnits
Scopes == 1..MaxScopes
Ctxs == 0..MaxScopes        \* context 0 is the context the client passes to New
Root == 1

VARIABLES
    ctx,        \* ctx[c]: the cancelCtx of scope c: err (ctx.Err()) and cause (context.Cause)
    tree,       \* tree[s]: the Tree s: parent context, options, concurrencyLimit, semaphore state, wg counter
    unit,       \* unit[u]: the goroutine started by the u-th Go/Sub/Link call
    nScopes,    \* Trees created so far
    nUnits,     \* goroutines started so far
    mainPc,     \* the client's main goroutine: "spawn" (calling Go, Sub, Link, then in Wait), "done" (Wait returned)
    waitRes,    \* waitRes[s]: what Wait on s returned (Pending before it returns)
    extWon,     \* history: the client's cancel found the root untriggered and a task of it in flight
    aux         \* the state of the helpers and of the client beyond the Tree (constant under Spec)

vars == <<ctx, tree, unit, nScopes, nUnits, mainPc, waitRes, extWon, aux>>

-----------------------------------------------------------------------------
\* Error values: <<text, n>>; n tells the errors of different goroutines apart.
Nil == <<"nil", 0>>
Pending == <<"pending", 0>>
Canceled == <<"context canceled", 0>>
DeadlineExceeded == <<"context deadline exceeded", 0>>
ExtCause == <<"cause", 0>>
ErrOf(u) == <<"error", u>>              \* the error the user function of u returns
PanicErrOf(u) == <<"panic error", u>>   \* an error value u panics with
PanicValOf(u) == <<"value", u>>         \* a non-error value u panics with
IsError(r) == r[1] # "value"            \* r.(error)
Wrap(r) == <<"worktree: panic", r[2]>>  \* fmt.Errorf("worktree: panic: %v", r)

\* How a user function ends.
Outcomes == {"nil", "err", "panicErr", "panicVal", "hang"}
Panicked(o) == o \in {"panicErr", "panicVal"}

NoUnit == [kind |-> "none", scope |-> 0, pc |-> "none", sub |-> 0, out |-> "none",
           cancelled |-> FALSE]
NoTree == [parent |-> 0, options |-> <<>>, limit |-> 0, cur |-> 0, waiters |-> <<>>, wg |-> 0,
           born |-> FALSE]
NoCtx == [err |-> Nil, cause |-> Nil]

-----------------------------------------------------------------------------
\* context.WithCancelCause and its cancel function.

RECURSIVE IsUnder(_, _, _)
\* context d is c or derives from it
IsUnder(tr, d, c) ==
    IF d = c THEN TRUE
    ELSE IF d = 0 THEN FALSE
    ELSE IsUnder(tr, tr[d].parent, c)

\* Mutant of CancelCtx: a plain write of the cause, without the set-once check.
CancelCtxOverwrite(cx, tr, n, c, err, cause) ==
    LET cs == IF cause = Nil THEN err ELSE cause IN
    [d \in Ctxs |->
       IF d = c \/ (d >= 1 /\ d <= n /\ IsUnder(tr, d, c))
       THEN [err |-> err, cause |-> cs]
       ELSE cx[d]]

\* cancel(err, cause) on context c: a no-op once c is triggered;
\* otherwise records err and cause on c and on every untriggered context
\* derived from c.
\* mutant: cancel does not reach the derived contexts
CancelCtxAlone(cx, tr, n, c, err, cause) ==
    IF cx[c].err # Nil THEN cx
    ELSE [cx EXCEPT ![c] = [err |-> err, cause |-> IF cause = Nil THEN err ELSE cause]]
CancelCtx(cx, tr, n, c, err, cause) ==
    IF cx[c].err # Nil THEN cx
    ELSE LET cs == IF cause = Nil THEN err ELSE cause IN
         [d \in Ctxs |->
            IF d = c \/ (d >= 1 /\ d <= n /\ IsUnder(tr, d, c) /\ cx[d].err = Nil)
                 THEN [err |-> err, cause |-> cs]
                 ELSE cx[d]]

\* g.cancel(e) of Tree s
TreeCancel(cx, tr, n, s, e) == CancelCtx(cx, tr, n, s, Canceled, e)

\* the context New derives from parent p: triggered at once when p is
DeriveCtx(cx, p) ==
    IF cx[p].err # Nil THEN [err |-> cx[p].err, cause |-> cx[p].cause]
    ELSE NoCtx

-----------------------------------------------------------------------------
\* Options.  An option is the n of WithConcurrencyLimit(n).

RECURSIVE ApplyOptions(_, _)
\* the loop of New: each option in order, a later one overriding
ApplyOptions(opts, lim) ==
    IF opts = <<>> THEN lim ELSE ApplyOptions(Tail(opts), Head(opts))

\* born (history): the context New was given was already triggered
NewTree(p, opts) ==
    [parent |-> p, options |-> opts, limit |-> ApplyOptions(opts, 0),
     cur |-> 0, waiters |-> <<>>, wg |-> 0, born |-> FALSE]

RootOptions == {<<>>} \cup {<<l>> : l \in 1..MaxLimit}
ExtraOptions == {<<>>} \cup {<<l>> : l \in 0..MaxLimit}

-----------------------------------------------------------------------------
\* The state of the helpers before any of them is used: Map's input and
\* output slices, the destination channel of Channel and its capacity, the
\* value each task of Channel produced, the task of Schedule with its delay
\* variable, what a second Wait on the root returned, and the option slices
\* of Sub as Go stores them (backing arrays, and a slice header per Tree).
NoAux == [vals |-> <<>>, out |-> <<>>,
          dest |-> <<>>, cap |-> 0, val |-> [u \in Units |-> 0],
          sched |-> 0, delay |-> 0, ret |-> 0, waited |-> 0,
          wait2 |-> Pending,
          heap |-> <<>>, slice |-> [s \in Scopes |-> [arr |-> 0, len |-> 0]],
          want |-> [s \in Scopes |-> <<>>]]

\* the Tree after New(ctx, opts...), nothing started
InitTree ==
    /\ ctx = [c \in Ctxs |-> NoCtx]
    /\ \E opts \in RootOptions :
         tree = [s \in Scopes |-> IF s = Root THEN NewTree(0, opts) ELSE NoTree]
    /\ unit = [u \in Units |-> NoUnit]
    /\ nScopes = 1
    /\ nUnits = 0
    /\ mainPc = "spawn"
    /\ waitRes = [s \in Scopes |-> Pending]
    /\ extWon = FALSE

Init == InitTree /\ aux = NoAux

\* a goroutine of Go that has not reached its deferred wg.Done
InFlight(u) == unit[u].kind = "go" /\ unit[u].pc \notin {"done", "recover", "end"}

\* The client cancels the context it passed to New, or its deadline passes.
ExtCancel(k) ==
    /\ ctx[0].err = Nil
    /\ extWon' = (ctx[Root].err = Nil /\ \E u \in Units : InFlight(u) /\ unit[u].scope = Root)
    /\ ctx' = CancelCtx(ctx, tree, nScopes, 0,
                        IF k = "deadline" THEN DeadlineExceeded ELSE Canceled,
                        IF k = "cause" THEN ExtCause ELSE Nil)
    /\ UNCHANGED <<tree, unit, nScopes, nUnits, mainPc, waitRes, aux>>

\* Who may call Go, Sub or Link on Tree s: main on the root before its Wait,
\* a setup function on the Tree it was given.
CanCall(c, s) ==
    \/ c = 0 /\ mainPc = "spawn" /\ s = Root
    \/ c \in Units /\ unit[c].kind = "sub" /\ unit[c].pc = "setup" /\ s = unit[c].sub

Callers == {0} \cup Units

\* Mutant of GoCall: the slot is acquired by the caller, before the go
\* statement, as errgroup's SetLimit does.
GoCallAcquiresFirst(c, s) ==
    /\ CanCall(c, s)
    /\ nUnits < MaxUnits
    /\ tree[s].limit = 0 \/ tree[s].cur < tree[s].limit
    /\ nUnits' = nUnits + 1
    /\ unit' = [unit EXCEPT ![nUnits + 1] =
                  [NoUnit EXCEPT !.kind = "go", !.scope = s, !.pc = "sleep"]]
    /\ tree' = [tree EXCEPT ![s].wg = @ + 1]
    /\ UNCHANGED <<ctx, nScopes, mainPc, waitRes, extWon, aux>>

\* Go: wg.Add(1) and the go statement.
GoCall(c, s) ==
    /\ CanCall(c, s)
    /\ nUnits < MaxUnits
    /\ nUnits' = nUnits + 1
    /\ unit' = [unit EXCEPT ![nUnits + 1] =
                  [NoUnit EXCEPT !.kind = "go", !.scope = s, !.pc = "sleep"]]
    /\ tree' = [tree EXCEPT ![s].wg = @ + 1]
    /\ UNCHANGED <<ctx, nScopes, mainPc, waitRes, extWon, aux>>

Go == \E c \in Callers, s \in Scopes : GoCall(c, s)

\* Link: wg.Add(1) and the go statement.
LinkCall(c, s) ==
    /\ CanCall(c, s)
    /\ nUnits < MaxUnits
    /\ nUnits' = nUnits + 1
    /\ unit' = [unit EXCEPT ![nUnits + 1] =
                  [NoUnit EXCEPT !.kind = "link", !.scope = s, !.pc = "wait"]]
    /\ tree' = [tree EXCEPT ![s].wg = @ + 1]
    /\ UNCHANGED <<ctx, nScopes, mainPc, waitRes, extWon, aux>>

Link == \E c \in Callers, s \in Scopes : LinkCall(c, s)

\* Sub: append the options, New, wg.Add(1) and the go statement.  The new
\* goroutine sleeps and calls fn(ctx, sub), which touches nothing shared.
\* New is given its options as arguments here, so every option slice of the
\* runs within the bounds has the elements of its parent's followed by the
\* extra ones; OptSub follows the backing arrays.
SubCall(c, s, extra) ==
    /\ CanCall(c, s)
    /\ nUnits < MaxUnits
    /\ nScopes < MaxScopes
    /\ nUnits' = nUnits + 1
    /\ nScopes' = nScopes + 1
    /\ unit' = [unit EXCEPT ![nUnits + 1] =
                  [NoUnit EXCEPT !.kind = "sub", !.scope = s, !.pc = "setup",
                                 !.sub = nScopes + 1]]
    /\ tree' = [tree EXCEPT ![s].wg = @ + 1,
                            ![nScopes + 1] =
                                [NewTree(s, tree[s].options \o extra)
                                   EXCEPT !.born = (ctx[s].err # Nil)]]
    /\ ctx' = [ctx EXCEPT ![nScopes + 1] = DeriveCtx(ctx, s)]
    /\ UNCHANGED <<mainPc, waitRes, extWon, aux>>

Sub == \E c \in Callers, s \in Scopes, extra \in ExtraOptions : SubCall(c, s, extra)

-----------------------------------------------------------------------------
\* semaphore.Weighted of golang.org/x/sync v0.4.0 (go.mod), with every request
\* of weight 1.  Acquire looks at the context only once it has queued: with a
\* free slot it succeeds on a triggered context too.

\* Mutant of SemFree: the fast path does not look at the slots in use.
SemFreeNoCount(t) == t.waiters = <<>>

\* Acquire's fast path: a free slot and nobody queued
SemFree(t) == t.limit - t.cur >= 1 /\ t.waiters = <<>>

RemoveWaiter(ws, u) == SelectSeq(ws, LAMBDA w : w # u)

\* Release(1) followed by notifyWaiters: the freed slot goes to the waiter at
\* the front of the queue, whose ready channel is closed.
\* mutant: Release forgets the slot
SemReleaseLost(t) == t
SemRelease(t) ==
    IF t.waiters # <<>> /\ t.limit - (t.cur - 1) >= 1
    THEN [t EXCEPT !.waiters = Tail(@)]
    ELSE [t EXCEPT !.cur = @ - 1]
SemGranted(t) ==
    IF t.waiters # <<>> /\ t.limit - (t.cur - 1) >= 1 THEN Head(t.waiters) ELSE 0

-----------------------------------------------------------------------------
\* The goroutine of Go.  A step of a goroutine that touches nothing shared
\* (the end of the sleep, the return of the user function) is taken together
\* with its next step that does.

ScopeOf(u) == unit[u].scope
IsAt(u, k, pc) == unit[u].kind = k /\ unit[u].pc = pc

\* where the goroutine continues once fn is over: the deferred Release, if
\* one was registered, then the deferred wg.Done
AfterFn(t) == IF t.limit # 0 THEN "release" ELSE "done"

\* Mutant of CancelOnErr: the error is dropped.
CancelOnErrDropped(cx, tr, n, u, s, o) == cx

\* the context after `if err != nil { g.cancel(err) }` of goroutine u, whose
\* user function ended with outcome o
CancelOnErr(cx, tr, n, u, s, o) ==
    IF o = "err" THEN TreeCancel(cx, tr, n, s, ErrOf(u)) ELSE cx

\* the value u panicked with
PanicVal(u) == IF unit[u].out = "panicErr" THEN PanicErrOf(u) ELSE PanicValOf(u)

\* time.Sleep(g.jitter()) is over.  Without a limit fn starts; with one,
\* g.concurrencyLimit.Acquire(g.ctx, 1) takes a slot at once, or queues the
\* goroutine and blocks it on ctx.Done() and its ready channel.
GoStart(u) ==
    /\ IsAt(u, "go", "sleep")
    /\ LET s == ScopeOf(u) IN
       IF tree[s].limit = 0
       THEN /\ unit' = [unit EXCEPT ![u].pc = "run"]
            /\ tree' = tree
       ELSE IF SemFree(tree[s])
       THEN /\ tree' = [tree EXCEPT ![s].cur = @ + 1]
            /\ unit' = [unit EXCEPT ![u].pc = "run"]
       ELSE /\ tree' = [tree EXCEPT ![s].waiters = Append(@, u)]
            /\ unit' = [unit EXCEPT ![u].pc = "acqwait"]
    /\ UNCHANGED <<ctx, nScopes, nUnits, mainPc, waitRes, extWon, aux>>

\* the blocked Acquire returns nil: its ready channel was closed
GoAcquired(u) ==
    /\ IsAt(u, "go", "acqready")
    /\ unit' = [unit EXCEPT ![u].pc = "run"]
    /\ UNCHANGED <<ctx, tree, nScopes, nUnits, mainPc, waitRes, extWon, aux>>

\* the blocked Acquire returns ctx.Err(); g.cancel(err); return
GoAcquireFail(u) ==
    /\ IsAt(u, "go", "acqwait")
    /\ LET s == ScopeOf(u) IN
       /\ ctx[s].err # Nil
       /\ tree' = [tree EXCEPT ![s].waiters = RemoveWaiter(@, u)]
       /\ ctx' = TreeCancel(ctx, tree, nScopes, s, ctx[s].err)
    /\ unit' = [unit EXCEPT ![u].pc = "done"]
    /\ UNCHANGED <<nScopes, nUnits, mainPc, waitRes, extWon, aux>>

\* fn(g.ctx) ends with outcome o; if err != nil { g.cancel(err) }
GoRun(u, o) ==
    /\ IsAt(u, "go", "run")
    /\ unit' = [unit EXCEPT ![u].out = o,
                            ![u].pc = IF o = "hang" THEN "hung"
                                      ELSE AfterFn(tree[ScopeOf(u)])]
    /\ ctx' = CancelOnErr(ctx, tree, nScopes, u, ScopeOf(u), o)
    /\ UNCHANGED <<tree, nScopes, nUnits, mainPc, waitRes, extWon, aux>>

\* the deferred g.concurrencyLimit.Release(1)
GoRelease(u) ==
    /\ IsAt(u, "go", "release")
    /\ LET s == ScopeOf(u)
           w == SemGranted(tree[s]) IN
       /\ tree' = [tree EXCEPT ![s] = SemRelease(@)]
       /\ unit' = [v \in Units |->
                     IF v = u THEN [unit[v] EXCEPT !.pc = "done"]
                     ELSE IF v = w THEN [unit[v] EXCEPT !.pc = "acqready"]
                     ELSE unit[v]]
    /\ UNCHANGED <<ctx, nScopes, nUnits, mainPc, waitRes, extWon, aux>>

\* where a goroutine continues after its deferred wg.Done: the deferred
\* recovery, which does something only when the goroutine is panicking
AfterDone(o) == IF Panicked(o) THEN "recover" ELSE "end"

\* the deferred g.wg.Done() of a Go, Sub or Link goroutine
UnitDone(u) ==
    /\ unit[u].pc = "done"
    /\ tree' = [tree EXCEPT ![ScopeOf(u)].wg = @ - 1]
    /\ unit' = [unit EXCEPT ![u].pc = AfterDone(unit[u].out)]
    /\ UNCHANGED <<ctx, nScopes, nUnits, mainPc, waitRes, extWon, aux>>

\* the error recovery hands to g.cancel for the recovered value r
RecoveredErr(r) == IF IsError(r) THEN r ELSE Wrap(r)

\* the deferred g.recovery() of a panicking goroutine
UnitRecover(u) ==
    /\ unit[u].pc = "recover"
    /\ ctx' = TreeCancel(ctx, tree, nScopes, ScopeOf(u), RecoveredErr(PanicVal(u)))
    /\ unit' = [unit EXCEPT ![u].pc = "end"]
    /\ UNCHANGED <<tree, nScopes, nUnits, mainPc, waitRes, extWon, aux>>

-----------------------------------------------------------------------------
\* Wait.  Nothing changes the counter between the return of g.wg.Wait() and
\* the reads of the context, which are taken together with it.

\* Mutant of WgZero: Wait returns with one goroutine still counted.
WgZeroOffByOne(t) == t.wg <= 1

\* g.wg.Wait() returns
WgZero(t) == t.wg = 0

\* Mutant of WaitResult: Wait returns ctx.Err(), as errgroup would.
WaitResultErrOnly(c) == c.err

\* what Wait returns from ctx.Err() and context.Cause(ctx)
WaitResult(c) ==
    IF c.err = Nil THEN Nil
    ELSE IF c.err = Canceled /\ c.cause # Nil THEN c.cause
    ELSE c.err

-----------------------------------------------------------------------------
\* The goroutine of Sub.

\* where the goroutine of Sub continues when fn ends with outcome o: a
\* panic skips sub.Wait() and runs the deferred calls
AfterSetup(o) ==
    CASE o = "hang" -> "hung"
      [] Panicked(o) -> "done"
      [] OTHER -> "subwait"

\* fn(ctx, sub) ends with outcome o;
\* if err != nil { g.cancel(err); cancelled = true }
SubSetup(u, o) ==
    /\ IsAt(u, "sub", "setup")
    /\ unit' = [unit EXCEPT ![u].out = o, ![u].pc = AfterSetup(o),
                            ![u].cancelled = (o = "err")]
    /\ ctx' = CancelOnErr(ctx, tree, nScopes, u, ScopeOf(u), o)
    /\ UNCHANGED <<tree, nScopes, nUnits, mainPc, waitRes, extWon, aux>>

\* Mutant of PassWaitErr: the error of sub.Wait() is never passed on.
PassWaitErrNever(err, cancelled) == FALSE

\* whether the goroutine of Sub passes the error of sub.Wait() to g.cancel
\* mutant: the error of sub.Wait() is passed on whatever fn returned
PassWaitErrAlways(err, cancelled) == err # Nil
PassWaitErr(err, cancelled) == err # Nil /\ ~cancelled

\* err = sub.Wait() returns
SubWait(u) ==
    /\ IsAt(u, "sub", "subwait")
    /\ WgZero(tree[unit[u].sub])
    /\ LET err == WaitResult(ctx[unit[u].sub]) IN
       /\ waitRes' = [waitRes EXCEPT ![unit[u].sub] = err]
       /\ unit' = [unit EXCEPT ![u].pc =
                     IF PassWaitErr(err, unit[u].cancelled) THEN "cancel2" ELSE "done"]
    /\ UNCHANGED <<ctx, tree, nScopes, nUnits, mainPc, extWon, aux>>

\* if err != nil && !cancelled { g.cancel(err) }
SubCancelWait(u) ==
    /\ IsAt(u, "sub", "cancel2")
    /\ ctx' = TreeCancel(ctx, tree, nScopes, ScopeOf(u), waitRes[unit[u].sub])
    /\ unit' = [unit EXCEPT ![u].pc = "done"]
    /\ UNCHANGED <<tree, nScopes, nUnits, mainPc, waitRes, extWon, aux>>

-----------------------------------------------------------------------------
\* The goroutine of Link.

\* waiter.Wait() ends with outcome o; if err != nil { g.cancel(err) }
LinkWait(u, o) ==
    /\ IsAt(u, "link", "wait")
    /\ unit' = [unit EXCEPT ![u].out = o,
                            ![u].pc = IF o = "hang" THEN "hung" ELSE "done"]
    /\ ctx' = CancelOnErr(ctx, tree, nScopes, u, ScopeOf(u), o)
    /\ UNCHANGED <<tree, nScopes, nUnits, mainPc, waitRes, extWon, aux>>

-----------------------------------------------------------------------------
\* The client's main goroutine: after its calls of Go, Sub and Link, Wait.
\* The call of Wait changes nothing; its return is the step.

\* Wait on the root returns
MainWait ==
    /\ mainPc = "spawn"
    /\ WgZero(tree[Root])
    /\ waitRes' = [waitRes EXCEPT ![Root] = WaitResult(ctx[Root])]
    /\ mainPc' = "done"
    /\ UNCHANGED <<ctx, tree, unit, nScopes, nUnits, extWon, aux>>

-----------------------------------------------------------------------------
ExtKinds == {"cancel", "cause", "deadline"}

Ext == \E k \in ExtKinds : ExtCancel(k)
GoStep == \E u \in Units : GoStart(u) \/ GoAcquired(u) \/ GoAcquireFail(u) \/ GoRelease(u)
GoFn == \E u \in Units, o \in Outcomes : GoRun(u, o)
Defer == \E u \in Units : UnitDone(u) \/ UnitRecover(u)
SubStep == \E u \in Units : SubWait(u) \/ SubCancelWait(u)
SubFn == \E u \in Units, o \in Outcomes : SubSetup(u, o)
LinkFn == \E u \in Units, o \in Outcomes : LinkWait(u, o)

Next ==
    \/ Ext \/ Go \/ Link \/ Sub
    \/ GoStep \/ GoFn \/ Defer
    \/ SubStep \/ SubFn
    \/ LinkFn
    \/ MainWait

Spec == Init /\ [][Next]_vars

\* The steps of goroutine u.  The Go scheduler runs every goroutine that can
\* take a step; a user function ends one way or another (which includes
\* blocking for ever, "hang").
UnitStep(u) ==
    \/ GoStart(u) \/ GoAcquired(u) \/ GoAcquireFail(u) \/ GoRelease(u)
    \/ UnitDone(u) \/ UnitRecover(u)
    \/ SubWait(u) \/ SubCancelWait(u)
    \/ \E o \in Outcomes : GoRun(u, o) \/ SubSetup(u, o) \/ LinkWait(u, o)

FairSpec == Spec /\ (\A u \in Units : WF_vars(UnitStep(u))) /\ WF_vars(MainWait)

-----------------------------------------------------------------------------
(* A second Wait.  After its first Wait has returned, main calls Wait on   *)
(* the root again, any number of times, while the rest of the tree goes on. *)

\* main: g.Wait() once more; aux.wait2 is what the latest such call returned
MainWaitAgain ==
    /\ mainPc = "done"
    /\ WgZero(tree[Root])
    /\ aux' = [aux EXCEPT !.wait2 = WaitResult(ctx[Root])]
    /\ UNCHANGED <<ctx, tree, unit, nScopes, nUnits, mainPc, waitRes, extWon>>

WaitNext == Next \/ MainWaitAgain
WaitSpec == Init /\ [][WaitNext]_vars

-----------------------------------------------------------------------------
(* Map(tree, values, fn) on a new Tree: one Go per value, in order, then   *)
(* Wait.  The task of index i is unit i.                                   *)

MaxVal == 2
\* the zero value of the result type
Zero == 0
\* the inputs of Map
MapInputs == UNION {[1..n -> 1..MaxVal] : n \in 0..MaxUnits}
\* the result of a call fn(ctx, v) that succeeds
Fn(v) == 10 * v

\* out := make([]T, len(values))
MapInit ==
    /\ InitTree
    /\ \E vals \in MapInputs :
         aux = [NoAux EXCEPT !.vals = vals, !.out = [i \in 1..Len(vals) |-> Zero]]

\* one iteration of Map's loop: tree.Go(closure of i and value)
MapGo ==
    /\ nUnits < Len(aux.vals)
    /\ GoCall(0, Root)

\* mutant: every closure writes through the same index
MapStoreShared(out, vals, i, o) ==
    IF o = "nil" THEN [out EXCEPT ![Len(out)] = Fn(vals[i])] ELSE out
\* the slice after the closure of index i, whose call of fn ended with
\* outcome o: `if err != nil { return err }; out[i] = result`
MapStore(out, vals, i, o) ==
    IF o = "nil" THEN [out EXCEPT ![i] = Fn(vals[i])] ELSE out

\* the closure of unit u: fn(ctx, value) ends with outcome o, the result is
\* stored, and Go cancels the tree on an error
MapRun(u, o) ==
    /\ IsAt(u, "go", "run")
    /\ unit' = [unit EXCEPT ![u].out = o,
                            ![u].pc = IF o = "hang" THEN "hung"
                                      ELSE AfterFn(tree[ScopeOf(u)])]
    /\ ctx' = CancelOnErr(ctx, tree, nScopes, u, ScopeOf(u), o)
    /\ aux' = [aux EXCEPT !.out = MapStore(@, aux.vals, u, o)]
    /\ UNCHANGED <<tree, nScopes, nUnits, mainPc, waitRes, extWon>>

\* `return out, tree.Wait()` once the loop is over
MapWait ==
    /\ nUnits = Len(aux.vals)
    /\ MainWait

MapFn == \E u \in Units, o \in Outcomes : MapRun(u, o)
MapNext == Ext \/ MapGo \/ GoStep \/ MapFn \/ Defer \/ MapWait
MapSpec == MapInit /\ [][MapNext]_vars

-----------------------------------------------------------------------------
(* Channel: ToChannel(ctx, dest), then Channel.Go and Channel.Sub by main  *)
(* and by setup functions, then Wait.  Nobody receives from dest before     *)
(* Wait has returned (TestTree), so a send succeeds while the buffer has   *)
(* room and blocks otherwise.                                              *)

\* the capacities of the destination channel
ChanCaps == 0..MaxUnits
\* the values a task function returns
ChanVals == 1..MaxVal

ChanInit ==
    /\ InitTree
    /\ \E cap \in ChanCaps : aux = [NoAux EXCEPT !.cap = cap]

\* Channel.Sub: tree.Sub without extra options; the nested Channel has the
\* same destination
ChanSub == \E c \in Callers, s \in Scopes : SubCall(c, s, <<>>)

\* the closure of Channel.Go in unit u: fn(ctx) ends with outcome o and, if
\* it succeeded, with value v; the closure returns the error, or goes on to
\* the select
ChanRun(u, o, v) ==
    /\ IsAt(u, "go", "run")
    /\ unit' = [unit EXCEPT ![u].out = o,
                            ![u].pc = IF o = "hang" THEN "hung"
                                      ELSE IF o = "nil" THEN "send"
                                      ELSE AfterFn(tree[ScopeOf(u)])]
    /\ ctx' = CancelOnErr(ctx, tree, nScopes, u, ScopeOf(u), o)
    /\ aux' = IF o = "nil" THEN [aux EXCEPT !.val[u] = v] ELSE aux
    /\ UNCHANGED <<tree, nScopes, nUnits, mainPc, waitRes, extWon>>

\* mutant: the value is sent twice
ChanPutTwice(dest, v) == Append(Append(dest, v), v)
\* the buffer after `v.dest <- value`
ChanPut(dest, v) == Append(dest, v)

\* select, case v.dest <- value: the buffer has room; the closure returns nil
ChanSend(u) ==
    /\ IsAt(u, "go", "send")
    /\ Len(aux.dest) < aux.cap
    /\ aux' = [aux EXCEPT !.dest = ChanPut(@, aux.val[u])]
    /\ unit' = [unit EXCEPT ![u].pc = AfterFn(tree[ScopeOf(u)])]
    /\ UNCHANGED <<ctx, tree, nScopes, nUnits, mainPc, waitRes, extWon>>

\* select, case <-ctx.Done(): the closure returns ctx.Err() and the value is
\* dropped; Go's cancel finds the scope triggered
ChanSendCancel(u) ==
    /\ IsAt(u, "go", "send")
    /\ ctx[ScopeOf(u)].err # Nil
    /\ unit' = [unit EXCEPT ![u].out = "dropped",
                            ![u].pc = AfterFn(tree[ScopeOf(u)])]
    /\ UNCHANGED <<ctx, tree, nScopes, nUnits, mainPc, waitRes, extWon, aux>>

ChanFn == \E u \in Units, o \in Outcomes, v \in ChanVals : ChanRun(u, o, v)
ChanSelect == \E u \in Units : ChanSend(u) \/ ChanSendCancel(u)
ChanNext ==
    \/ Ext \/ Go \/ ChanSub
    \/ GoStep \/ ChanFn \/ ChanSelect \/ Defer
    \/ SubStep \/ SubFn
    \/ MainWait
ChanSpec == ChanInit /\ [][ChanNext]_vars

-----------------------------------------------------------------------------
(* Schedule(tree, fn) on the root, beside tasks started with Go.  The task *)
(* of Schedule is unit aux.sched; while its pc is "run" it is at the       *)
(* select of its loop, while it is "fn" the step function is executing.    *)

MaxDelay == 1
\* the delays the step function returns
Delays == 0..MaxDelay

\* Schedule: tree.Go(closure), return nil
SchedCall ==
    /\ aux.sched = 0
    /\ CanCall(0, Root)
    /\ nUnits < MaxUnits
    /\ nUnits' = nUnits + 1
    /\ unit' = [unit EXCEPT ![nUnits + 1] =
                  [NoUnit EXCEPT !.kind = "go", !.scope = Root, !.pc = "sleep"]]
    /\ tree' = [tree EXCEPT ![Root].wg = @ + 1]
    /\ aux' = [aux EXCEPT !.sched = nUnits + 1]
    /\ UNCHANGED <<ctx, nScopes, mainPc, waitRes, extWon>>

\* select, case <-time.After(delay): the timer of the delay variable has
\* fired and the step function is invoked; aux.waited is the delay waited
SchedTimer(u) ==
    /\ u = aux.sched
    /\ IsAt(u, "go", "run")
    /\ unit' = [unit EXCEPT ![u].pc = "fn"]
    /\ aux' = [aux EXCEPT !.waited = aux.delay]
    /\ UNCHANGED <<ctx, tree, nScopes, nUnits, mainPc, waitRes, extWon>>

\* select, case <-ctx.Done(): the closure returns ctx.Err(); Go's cancel
\* finds the scope triggered
SchedDone(u) ==
    /\ u = aux.sched
    /\ IsAt(u, "go", "run")
    /\ ctx[Root].err # Nil
    /\ unit' = [unit EXCEPT ![u].out = "stopped", ![u].pc = AfterFn(tree[Root])]
    /\ UNCHANGED <<ctx, tree, nScopes, nUnits, mainPc, waitRes, extWon, aux>>

\* `delay, err = fn(ctx)`: the step function ends with outcome o and delay
\* d; on nil the loop goes back to the select, on an error the closure
\* returns it and Go cancels the tree with it; aux.ret is the delay returned
SchedFn(u, o, d) ==
    /\ u = aux.sched
    /\ IsAt(u, "go", "fn")
    /\ unit' = [unit EXCEPT ![u].out = IF o = "nil" THEN @ ELSE o,
                            ![u].pc = IF o = "hang" THEN "hung"
                                      ELSE IF o = "nil" THEN "run"
                                      ELSE AfterFn(tree[Root])]
    /\ ctx' = CancelOnErr(ctx, tree, nScopes, u, Root, o)
    /\ aux' = IF Panicked(o) \/ o = "hang" THEN aux
              ELSE [aux EXCEPT !.delay = d, !.ret = d]
    /\ UNCHANGED <<tree, nScopes, nUnits, mainPc, waitRes, extWon>>

\* the task functions of the other tasks
SchedOtherFn == \E u \in Units, o \in Outcomes : u # aux.sched /\ GoRun(u, o)
SchedSelect == \E u \in Units : SchedTimer(u) \/ SchedDone(u)
SchedStep == \E u \in Units, o \in Outcomes, d \in Delays : SchedFn(u, o, d)
SchedNext ==
    \/ Ext \/ SchedCall \/ Go
    \/ GoStep \/ SchedOtherFn \/ SchedSelect \/ SchedStep \/ Defer
    \/ MainWait
SchedSpec == Init /\ [][SchedNext]_vars

-----------------------------------------------------------------------------
(* The option slices of Sub.  g.options is a Go slice: a backing array, a  *)
(* length and a capacity.  `append(g.options, options...)` writes the extra *)
(* options into the parent's backing array when its capacity allows, and   *)
(* into a new, larger array otherwise.  The client gives New its options   *)
(* as a slice (New(ctx, opts...)), whose capacity may exceed its length.   *)
(* aux.heap holds the backing arrays, aux.slice[s] the header of           *)
(* tree s's options, aux.want[s] the parent's option list followed by the  *)
(* extra options of the Sub call that made s.                              *)

MaxSpare == 1
\* the spare capacities of the slice given to New
Spares == 0..MaxSpare

\* cap(sl): a nil slice has no array
SliceCap(h, sl) == IF sl.arr = 0 THEN 0 ELSE Len(h[sl.arr])
\* the elements of sl
Contents(h, sl) == IF sl.arr = 0 THEN <<>> ELSE SubSeq(h[sl.arr], 1, sl.len)
\* the size classes of the allocator, in elements of one word
RoundUpCap(n) == IF n <= 4 THEN n ELSE IF n <= 6 THEN 6 ELSE IF n <= 8 THEN 8 ELSE n
\* the capacity append allocates for `need` elements when the old capacity
\* is too small: the need if it exceeds twice the old capacity, else twice
\* the old capacity, rounded up to a size class
GrowCap(old, need) == RoundUpCap(IF need > 2 * old THEN need ELSE 2 * old)
\* q followed by zero elements up to length n
PadTo(q, n) == q \o [i \in 1..(n - Len(q)) |-> 0]

\* append(sl, extra...): the heap and the slice header it returns
AppendSlice(h, sl, extra) ==
    LET need == sl.len + Len(extra) IN
    IF extra = <<>> THEN [heap |-> h, slice |-> sl]
    ELSE IF need <= SliceCap(h, sl)
    THEN [heap |-> [h EXCEPT ![sl.arr] =
                      [i \in 1..Len(@) |->
                         IF i > sl.len /\ i <= need THEN extra[i - sl.len] ELSE @[i]]],
          slice |-> [arr |-> sl.arr, len |-> need]]
    ELSE [heap |-> Append(h, PadTo(Contents(h, sl) \o extra,
                                   GrowCap(SliceCap(h, sl), need))),
          slice |-> [arr |-> Len(h) + 1, len |-> need]]

\* New(ctx, opts...) with opts a slice of the root's options and some spare
\* capacity
OptInit ==
    /\ InitTree
    /\ \E spare \in Spares :
         LET opts == tree[Root].options
             n == Len(opts) + spare IN
         aux = [NoAux EXCEPT
                  !.heap = IF n = 0 THEN <<>> ELSE <<PadTo(opts, n)>>,
                  !.slice[Root] = [arr |-> IF n = 0 THEN 0 ELSE 1, len |-> Len(opts)],
                  !.want[Root] = opts]

\* Sub on scope s with the extra options: the appended slice is given to
\* New and kept as the nested tree's options; wg.Add(1); the goroutine
\* starts with the setup function
OptSub(c, s, extra) ==
    /\ CanCall(c, s)
    /\ nUnits < MaxUnits
    /\ nScopes < MaxScopes
    /\ nUnits' = nUnits + 1
    /\ nScopes' = nScopes + 1
    /\ unit' = [unit EXCEPT ![nUnits + 1] =
                  [NoUnit EXCEPT !.kind = "sub", !.scope = s, !.pc = "setup",
                                 !.sub = nScopes + 1]]
    /\ LET a == AppendSlice(aux.heap, aux.slice[s], extra) IN
       /\ tree' = [tree EXCEPT ![s].wg = @ + 1,
                               ![nScopes + 1] =
                                   [NewTree(s, Contents(a.heap, a.slice))
                                      EXCEPT !.born = (ctx[s].err # Nil)]]
       /\ aux' = [aux EXCEPT !.heap = a.heap,
                             !.slice[nScopes + 1] = a.slice,
                             !.want[nScopes + 1] = aux.want[s] \o extra]
    /\ ctx' = [ctx EXCEPT ![nScopes + 1] = DeriveCtx(ctx, s)]
    /\ UNCHANGED <<mainPc, waitRes, extWon>>

OptSubs == \E c \in Callers, s \in Scopes, extra \in ExtraOptions : OptSub(c, s, extra)
OptNext == OptSubs \/ SubFn \/ SubStep \/ Defer \/ MainWait
OptSpec == OptInit /\ [][OptNext]_vars

-----------------------------------------------------------------------------
\* Properties.

UnitsOf(s) == {u \in Units : u <= nUnits /\ unit[u].scope = s}
GoUnitsOf(s) == {u \in UnitsOf(s) : unit[u].kind = "go"}
\* the user function of u is over and its deferred wg.Done has run
Terminated(u) == unit[u].pc \in {"recover", "end"}
\* the goroutines whose user function returned an error or panicked
FailedUnits == {u \in Units : unit[u].out \in {"err", "panicErr", "panicVal"}}
Returned(s) == waitRes[s] # Pending
Triggered(c) == ctx[c].err # Nil

\* C1: Wait on a scope has returned only if every goroutine registered in the
\* scope by Go, Sub or Link has terminated (its function is over, by return or
\* by panic, and its wg.Done has run).
C1_WaitAfterAllUnits ==
    \A s \in Scopes : Returned(s) => \A u \in UnitsOf(s) : Terminated(u)

\* C1 witness: Wait on the root returned with two goroutines registered, one
\* that returned an error and one that panicked.
C1_Witness ==
    /\ Returned(Root)
    /\ \E u, v \in UnitsOf(Root) :
         unit[u].out = "err" /\ Panicked(unit[v].out) /\ unit[v].kind # unit[u].kind

\* C2: in a scope whose parent is not triggered, once a task started with Go
\* has returned an error, Wait returns the recorded cause, which is the error
\* of a failed goroutine: not nil, not a generic cancellation; and when that
\* task is the only failure of the tree, Wait returns its error.
C2_WaitReturnsTaskError ==
    \A s \in Scopes :
        (/\ Returned(s)
         /\ ~Triggered(tree[s].parent)
         /\ \E u \in GoUnitsOf(s) : unit[u].out = "err")
        => /\ waitRes[s] \notin {Nil, Canceled, DeadlineExceeded}
           /\ waitRes[s] = ctx[s].cause
           /\ waitRes[s][1] \in {"error", "panic error", "worktree: panic"}
           /\ waitRes[s][2] \in FailedUnits
           /\ \A u \in GoUnitsOf(s) :
                (FailedUnits = {u} /\ unit[u].out = "err") => waitRes[s] = ErrOf(u)

\* C2 witness: Wait returned the error of the second of two failed tasks of
\* the root.
C2_Witness ==
    /\ Returned(Root)
    /\ ~Triggered(0)
    /\ \E u, v \in GoUnitsOf(Root) :
         /\ u < v /\ unit[u].out = "err" /\ unit[v].out = "err"
         /\ waitRes[Root] = ErrOf(v)

\* C3: once a task started with Go has panicked, Wait on its scope does not
\* return nil; and when the panic is the only failure of the tree and the
\* client cancelled nothing, Wait returns the panic value itself if it is an
\* error, and the "panic" error wrapping it otherwise.
C3_PanicReachesWait ==
    \A s \in Scopes : \A u \in GoUnitsOf(s) :
        (Returned(s) /\ Panicked(unit[u].out))
        => /\ waitRes[s] # Nil
           /\ (FailedUnits = {u} /\ ~Triggered(0))
              => waitRes[s] = RecoveredErr(PanicVal(u))

\* C4: once a context is triggered, its error and its cause never change.
C4_CauseSetOnce ==
    [][\A c \in Ctxs : Triggered(c) => ctx'[c] = ctx[c]]_vars

\* C4 witness: two goroutines of one scope have both called g.cancel with
\* their errors, and the cause is the error of the second.
C4_Witness ==
    \E s \in Scopes : \E u, v \in UnitsOf(s) :
        /\ u < v /\ unit[u].out = "err" /\ unit[v].out = "err"
        /\ ctx[s].cause = ErrOf(v)

\* the tasks of s that are executing their task function
Executing(s) == {u \in GoUnitsOf(s) : unit[u].pc \in {"run", "hung"}}

\* C5: in a scope with concurrency limit L > 0, at most L tasks started with
\* Go execute their task function at the same time, and at most L slots of
\* the semaphore are taken.
C5_AtMostLimitRunning ==
    \A s \in Scopes :
        tree[s].limit > 0
        => Cardinality(Executing(s)) <= tree[s].limit /\ tree[s].cur <= tree[s].limit

\* C5 witness: every slot is taken by an executing task and another task is
\* queued for one.
C5_Witness ==
    \E s \in Scopes :
        /\ tree[s].limit > 0
        /\ Cardinality(Executing(s)) = tree[s].limit
        /\ \E u \in GoUnitsOf(s) : unit[u].pc = "acqwait"

\* C6: when a task of a nested scope, whose setup function returned nil,
\* returns error E, and E is the only failure of the tree and the client
\* cancelled nothing, Wait on the parent returns E.
C6_NestedErrorReachesParent ==
    \A p \in Units : \A t \in GoUnitsOf(unit[p].sub) :
        (/\ unit[p].kind = "sub" /\ unit[p].out = "nil"
         /\ Returned(unit[p].scope)
         /\ ~Triggered(0)
         /\ FailedUnits = {t} /\ unit[t].out = "err")
        => waitRes[unit[p].scope] = ErrOf(t)

\* C6 witness: Wait on the root returned after a task of a nested scope
\* failed alone.
C6_Witness ==
    \E p \in Units : \E t \in GoUnitsOf(unit[p].sub) :
        /\ unit[p].kind = "sub" /\ unit[p].out = "nil" /\ unit[p].scope = Root
        /\ Returned(Root) /\ ~Triggered(0)
        /\ FailedUnits = {t} /\ unit[t].out = "err"

\* C7: Wait on the parent of a nested scope has returned only if every
\* goroutine of the nested scope has terminated, however the setup function
\* ended.
C7_ParentWaitsForNested ==
    \A p \in Units :
        (unit[p].kind = "sub" /\ Returned(unit[p].scope))
        => \A t \in UnitsOf(unit[p].sub) : Terminated(t)

\* C8: when the client cancels the context given to New while a task of the
\* root is in flight and the root is untriggered, Wait returns the cause given
\* to the cancel, and context.Canceled when none was given.
C8_ExternalCancelCause ==
    (Returned(Root) /\ extWon /\ ctx[0].err = Canceled)
    => /\ ctx[0].cause = ExtCause => waitRes[Root] = ExtCause
       /\ ctx[0].cause # ExtCause => waitRes[Root] = Canceled

\* C8 witness: Wait returned the client's cause although a task of the root
\* returned an error after the cancel.
C8_Witness ==
    /\ Returned(Root) /\ extWon
    /\ waitRes[Root] = ExtCause
    /\ \E u \in GoUnitsOf(Root) : unit[u].out = "err"

TaskFailed == \E u \in Units : unit[u].kind = "go" /\ unit[u].out = "err"
AllTriggered == \A s \in 1..nScopes : Triggered(s)
SomeHung == \E u \in Units : unit[u].pc = "hung"

C10_GoNeverBlocks ==
    \A c \in Callers : \A s \in Scopes :
        (CanCall(c, s) /\ nUnits < MaxUnits) => ENABLED GoCall(c, s)

\* C10 witness: main may call Go on a root that is triggered and whose
\* slots are all taken.
C10_Witness ==
    /\ CanCall(0, Root) /\ nUnits < MaxUnits
    /\ tree[Root].limit > 0 /\ tree[Root].cur = tree[Root].limit
    /\ Triggered(Root)

\* the scopes whose context was already triggered when New derived it
BornTriggered == {s \in 1..nScopes : tree[s].born}
\* u has entered its task function
Entered(u) == unit[u].pc \in {"run", "hung"} \/ unit[u].out # "none"
\* what Wait returns for a context that carries the error and cause of cx
CauseOf(cx) == IF cx.err = DeadlineExceeded THEN DeadlineExceeded ELSE cx.cause

\* C11: a scope created from a context that is already triggered never
\* admits a task: no task started with Go on it enters its task function,
\* and Wait on it returns the cause (or the expiry) of the parent context.
C11_TriggeredScopeAdmitsNoTask ==
    \A s \in BornTriggered :
        /\ \A u \in GoUnitsOf(s) : ~Entered(u)
        /\ Returned(s) => waitRes[s] = CauseOf(ctx[tree[s].parent])

\* a task queued for a slot of a triggered scope
BlockedTriggered(u) == IsAt(u, "go", "acqwait") /\ Triggered(unit[u].scope)
\* u ended without entering its task function
Refused(u) == unit[u].pc \in {"done", "end"} /\ unit[u].out = "none"

\* C12: a task that is queued for a slot while its scope is triggered
\* eventually ends without entering its task function.
C12_BlockedTaskNeverRuns ==
    \A u \in Units : BlockedTriggered(u) ~> Refused(u)

\* the sub units whose setup function returned an error while every other
\* failure of the tree is inside their nested scope and the parent of their
\* scope is untriggered: nothing but S and W can reach their scope
SetupFailedFirst ==
    {p \in Units :
        /\ unit[p].kind = "sub" /\ unit[p].out = "err"
        /\ ~Triggered(tree[unit[p].scope].parent)
        /\ \A f \in FailedUnits \ {p} : IsUnder(tree, unit[f].scope, unit[p].sub)}

\* C15: the goroutine of Sub passes the error of the nested Wait to the
\* parent only if the setup function returned nil; when the setup function
\* returned error S and nothing else was recorded in the parent before, the
\* parent's cause is S and the parent's Wait returns S, whatever the nested
\* Wait returned.
C15_SetupErrorNotReplaced ==
    /\ [][\A p \in Units :
            (unit[p].pc # "cancel2" /\ unit'[p].pc = "cancel2") => unit[p].out = "nil"]_vars
    /\ [](\A p \in SetupFailedFirst :
            /\ ctx[unit[p].scope].cause = ErrOf(p)
            /\ Returned(unit[p].scope) => waitRes[unit[p].scope] = ErrOf(p))

\* C15 witness: the setup function returned S, a nested task failed with
\* its own error W first, the nested Wait returned W and the root's Wait
\* returned S.
C15_Witness ==
    \E p \in SetupFailedFirst : \E t \in GoUnitsOf(unit[p].sub) :
        /\ unit[p].scope = Root /\ Returned(Root)
        /\ unit[t].out = "err" /\ waitRes[unit[p].sub] = ErrOf(t)
        /\ waitRes[Root] = ErrOf(p)

\* every goroutine has ended, every semaphore is free, and every Wait that
\* was called has returned
Quiet ==
    /\ mainPc = "done"
    /\ \A u \in 1..nUnits : unit[u].pc = "end"
    /\ \A s \in 1..nScopes : tree[s].cur = 0 /\ tree[s].waiters = <<>> /\ tree[s].wg = 0
    /\ \A p \in 1..nUnits :
          (unit[p].kind = "sub" /\ ~Panicked(unit[p].out)) => Returned(unit[p].sub)
\* no goroutine can take a step
Stuck == ~ENABLED MainWait /\ \A u \in Units : ~ENABLED UnitStep(u)

\* C16: under fair scheduling, unless a user function never returns, Wait
\* on the root and every Wait called on a nested scope return, every
\* goroutine ends and every slot that was acquired is released; and a state
\* where no goroutine can step is one where all that has happened.
C16_WaitReturns ==
    /\ <>(Quiet \/ SomeHung)
    /\ [](Stuck => (Quiet \/ SomeHung))

\* C16 witness: everything has ended after a task of a nested scope with
\* one slot panicked.
C16_Witness ==
    /\ Quiet /\ ~SomeHung
    /\ \E s \in 2..nScopes :
          /\ tree[s].limit = 1
          /\ Cardinality(GoUnitsOf(s)) >= 1
          /\ \E u \in GoUnitsOf(s) : Panicked(unit[u].out)

\* C17: a triggered context has only triggered descendants; a descendant
\* that was untriggered when its ancestor was triggered carries the
\* ancestor's error and cause from that step on, and so does a scope
\* derived from a triggered context.
C17_DescendantsTriggered ==
    /\ [](\A c \in Ctxs : \A d \in 1..nScopes :
            (Triggered(c) /\ IsUnder(tree, d, c)) => Triggered(d))
    /\ [][\A c \in Ctxs : \A d \in 1..nScopes :
            (IsUnder(tree, d, c) /\ ~Triggered(c) /\ ~Triggered(d) /\ ctx'[c].err # Nil)
            => ctx'[d] = ctx'[c]]_vars
    /\ [](\A d \in BornTriggered : ctx[d] = ctx[tree[d].parent])

\* C17 witness: a nested scope that was derived untriggered carries the
\* error of a unit of its parent.
C17_Witness ==
    \E d \in 2..nScopes : \E u \in UnitsOf(tree[d].parent) :
        /\ ~tree[d].born
        /\ unit[u].sub # d
        /\ unit[u].out = "err"
        /\ ctx[d].cause = ErrOf(u) /\ ctx[tree[d].parent].cause = ErrOf(u)

\* C18 as claimed: every later Wait on the root returns what the first
\* Wait returned.
C18_WaitResultFixed ==
    aux.wait2 # Pending => aux.wait2 = waitRes[Root]

\* C18 amended: once Wait on the root has returned an error, every later
\* Wait returns the same error.
C18_WaitErrorFixed ==
    (aux.wait2 # Pending /\ waitRes[Root] # Nil) => aux.wait2 = waitRes[Root]

\* C18 witness: the first Wait returned the error of a task, the client's
\* context is cancelled with another cause, and a later Wait returned the
\* task's error again.
C18_Witness ==
    /\ aux.wait2 # Pending
    /\ \E u \in Units : waitRes[Root] = ErrOf(u) /\ aux.wait2 = ErrOf(u)
    /\ ctx[0].cause = ExtCause

\* the indices of Map's input
MapIndices == 1..Len(aux.vals)

\* C13: when Map has returned, its slice is as long as its input, every
\* slot whose call succeeded holds that call's result, every slot whose call
\* failed holds the zero value, and when the error returned is nil every
\* slot holds the result of its call.
C13_MapFillsSlots ==
    mainPc = "done"
    => /\ Len(aux.out) = Len(aux.vals)
       /\ \A i \in MapIndices :
            /\ unit[i].out = "nil" => aux.out[i] = Fn(aux.vals[i])
            /\ i \in FailedUnits => aux.out[i] = Zero
       /\ waitRes[Root] = Nil => \A i \in MapIndices : aux.out[i] = Fn(aux.vals[i])

\* how many times v is in the sequence q
Count(q, v) == Cardinality({i \in DOMAIN q : q[i] = v})
\* the tasks of the whole tree
AllGoUnits == {u \in 1..nUnits : unit[u].kind = "go"}

\* C14: when Wait on the root of a Channel has returned nil, no user
\* function failed, no context is triggered and the destination has room
\* for every task's value, the destination holds each value as many times
\* as tasks of the tree, started with Go on the root or on a nested Channel,
\* produced it.
C14_ChannelHoldsAllValues ==
    (/\ waitRes[Root] = Nil
     /\ FailedUnits = {}
     /\ \A c \in Ctxs : ~Triggered(c)
     /\ aux.cap >= Cardinality(AllGoUnits))
    => \A v \in ChanVals :
          Count(aux.dest, v) = Cardinality({u \in AllGoUnits : aux.val[u] = v})

\* C14 witness: Wait returned nil and the destination holds the value of a
\* task of a nested Channel.
C14_Witness ==
    /\ waitRes[Root] = Nil /\ FailedUnits = {}
    /\ \A c \in Ctxs : ~Triggered(c)
    /\ \E u \in AllGoUnits : unit[u].scope # Root /\ aux.dest = <<aux.val[u]>>

\* the step function is being invoked in this step
Invoked == aux.sched # 0 /\ unit[aux.sched].pc = "run" /\ unit'[aux.sched].pc = "fn"
\* the task of Schedule ends in this step
SchedEnds ==
    /\ aux.sched # 0
    /\ unit[aux.sched].pc \in {"run", "fn"}
    /\ unit'[aux.sched].pc \notin {"run", "fn", "hung"}
\* the step function has returned an error or panicked
StepFailed == aux.sched # 0 /\ aux.sched \in FailedUnits

\* C19: the step function is invoked after the delay it returned last, zero
\* at first; the task of Schedule ends only when the step function fails,
\* its error becoming the cause of an untriggered scope, or when the scope
\* is triggered; and once the step function has failed or the scope is
\* triggered, the step function is not invoked again.
C19_ScheduleStopsInvoking ==
    /\ [][Invoked => aux'.waited = aux.ret]_vars
    /\ [][SchedEnds => (StepFailed' \/ Triggered(Root))]_vars
    /\ [][(SchedEnds /\ unit'[aux.sched].out = "err" /\ ~Triggered(Root))
            => ctx'[Root].cause = ErrOf(aux.sched)]_vars
    /\ [][(StepFailed \/ Triggered(Root)) => ~Invoked]_vars

\* C20: the options recorded for every scope are the parent's option list
\* followed by the extra options of the Sub call that made it, whatever
\* other Sub calls are made; a nested scope is created from exactly that
\* list, and its limit is the last one of the list.
C20_SubOptionsKept ==
    \A s \in 1..nScopes :
        /\ Contents(aux.heap, aux.slice[s]) = aux.want[s]
        /\ tree[s].options = aux.want[s]
        /\ tree[s].limit = ApplyOptions(aux.want[s], 0)

====
